---- MODULE Spec2Model ----
(***************************************************************************)
(* Model of wasm/debug_server.py: a single-threaded HTTP server whose GET  *)
(* handler serves ./index.html, or the file at '.' + path for request      *)
(* targets that start with '/static/'.                                     *)
(*                                                                         *)
(* Strings that the code inspects (request targets, filesystem paths) are  *)
(* sequences of tokens: "/" is the separator, every other token is a run   *)
(* of characters without a slash.  <<"/", "static", "foo">> is the target  *)
(* /staticfoo, <<"/", "static", "/", "app.js", "?", "v=1">> is             *)
(* /static/app.js?v=1.  A path segment (a filename) is the sequence of     *)
(* tokens between two separators.                                          *)
(***************************************************************************)
EXTENDS Integers, Sequences, FiniteSets, TLC

VARIABLES
    fs,              \* the filesystem: absolute node -> entry
    server_address,  \* the bind address handed to HTTPServer
    serving,         \* TRUE while httpd.serve_forever() is running
    backlog,         \* connections that arrived and are not yet accepted
    nextId,          \* arrival number of the next connection
    accepted,        \* ids in the order get_request() accepted them
    handlers,        \* id -> RequestHandler instance, for requests in flight
    responses        \* completed exchanges, in completion order

vars == <<fs, server_address, serving, backlog, nextId, accepted, handlers, responses>>

\* Number of connections the clients open in one behaviour.
MaxRequests == 2

Ids == 1..MaxRequests

----------------------------------------------------------------------------
(* Request targets the clients send. *)

Targets ==
    { <<"/">>,
      <<"/", "foo", "/", "bar">>,
      <<"/", "static">>,
      <<"/", "static", "foo">>,
      <<"/", "static", "/">>,
      <<"/", "static", "/", "app.js">>,
      <<"/", "static", "/", "missing.js">>,
      <<"/", "static", "/", "app.js", "?", "v=1">>,
      <<"/", "?", "x=", "/", "static", "/">>,
      <<"/", "static", "/", "..", "/", "index.html">>,
      <<"/", "static", "/", "..", "/", "..", "/", "Cargo.toml">> }

----------------------------------------------------------------------------
(* The filesystem as the operating system presents it. *)

Absent == [kind |-> "absent", data |-> ""]
Dir == [kind |-> "dir", data |-> ""]
File(d) == [kind |-> "file", data |-> d]

Root == <<>>
Cwd == << <<"wasm">> >>
IndexNode == Cwd \o << <<"index.html">> >>
StaticNode == Cwd \o << <<"static">> >>
AppNode == StaticNode \o << <<"app.js">> >>
AppQueryNode == StaticNode \o << <<"app.js", "?", "v=1">> >>
CargoNode == << <<"Cargo.toml">> >>

Nodes == {Root, Cwd, IndexNode, StaticNode, AppNode, AppQueryNode, CargoNode}

MkFs(index, static, app, appq) ==
    [n \in Nodes |->
        IF n = Root \/ n = Cwd THEN Dir
        ELSE IF n = CargoNode THEN File("[package]")
        ELSE IF n = IndexNode THEN index
        ELSE IF n = StaticNode THEN static
        ELSE IF n = AppNode THEN app
        ELSE appq]

\* The directory layouts the server may be started in.
FsOptions ==
    { MkFs(index, Absent, Absent, Absent) :
        index \in {Absent, Dir, File("<html></html>")} }
    \cup
    { MkFs(c[1], Dir, c[2], c[3]) :
        c \in {Absent, Dir, File("<html></html>")}
              \X {Absent, Dir, File("console.log(1);")}
              \X {Absent, File("console.log(2);")} }

Kind(f, n) == IF n \in DOMAIN f THEN f[n].kind ELSE "absent"

Parent(n) == IF n = <<>> THEN n ELSE SubSeq(n, 1, Len(n) - 1)

\* The segments of a path: the runs of tokens between "/" separators.
\* SplitAcc scans s from token i on; acc holds the finished segments and
\* cur the segment being read.
RECURSIVE SplitAcc(_, _, _, _)
SplitAcc(s, i, acc, cur) ==
    IF i > Len(s) THEN Append(acc, cur)
    ELSE IF s[i] = "/" THEN SplitAcc(s, i + 1, Append(acc, cur), <<>>)
    ELSE SplitAcc(s, i + 1, acc, Append(cur, s[i]))

Segments(s) == SplitAcc(s, 1, <<>>, <<>>)

\* Pathname resolution from node cur over the components segs[i..]: every
\* component but the last must be a directory, empty and "." components
\* stay, ".." moves to the parent.
RECURSIVE Walk(_, _, _, _)
Walk(f, cur, segs, i) ==
    IF i > Len(segs) THEN [found |-> Kind(f, cur) # "absent", node |-> cur]
    ELSE IF Kind(f, cur) # "dir" THEN [found |-> FALSE, node |-> cur]
    ELSE IF segs[i] = <<>> \/ segs[i] = <<".">> THEN Walk(f, cur, segs, i + 1)
    ELSE IF segs[i] = <<"..">> THEN Walk(f, Parent(cur), segs, i + 1)
    ELSE Walk(f, Append(cur, segs[i]), segs, i + 1)

\* A path that starts with "/" is resolved from the root, any other from
\* the working directory.  (The path is split once; segs ranges over the
\* single result.)
Resolve(f, p) ==
    IF p = <<>> THEN [found |-> FALSE, node |-> Cwd]
    ELSE CHOOSE r \in
        { Walk(f, IF Head(p) = "/" THEN Root ELSE Cwd, segs, 1)
          : segs \in {Segments(p)} } : TRUE

----------------------------------------------------------------------------
(* Library calls the handler makes. *)

STATIC_PREFIX == <<"/", "static", "/">>

startswith_noslash(s, prefix) ==
    /\ Len(s) >= Len(prefix) - 1
    /\ SubSeq(s, 1, Len(prefix) - 1) = SubSeq(prefix, 1, Len(prefix) - 1)

startswith(s, prefix) ==
    /\ Len(s) >= Len(prefix)
    /\ SubSeq(s, 1, Len(prefix)) = prefix

\* Index of the first occurrence of token c in s, or Len(s) + 1.
RECURSIVE find(_, _)
find(s, c) ==
    IF s = <<>> \/ Head(s) = c THEN 1 ELSE 1 + find(Tail(s), c)

\* urllib.parse.urlparse on a request target: the fragment is cut first,
\* then the query.
urlparse(url) ==
    LET h == find(url, "#")
        nofrag == SubSeq(url, 1, h - 1)
        q == find(nofrag, "?")
    IN [path |-> SubSeq(nofrag, 1, q - 1),
        query |-> SubSeq(nofrag, q + 1, Len(nofrag)),
        fragment |-> SubSeq(url, h + 1, Len(url))]

static_path_abs(self_path) == self_path

static_path_normpath(self_path) ==
    LET keep == SelectSeq(Segments(Tail(self_path)),
                          LAMBDA s : s # <<>> /\ s # <<".">> /\ s # <<"..">>)
        RECURSIVE join(_)
        join(segs) == IF segs = <<>> THEN <<>>
                      ELSE <<"/">> \o Head(segs) \o join(Tail(segs))
    IN <<".">> \o join(keep)

\* path = '.' + self.path
static_path(self_path) == <<".">> \o self_path

isfile(path) ==
    LET r == Resolve(fs, path) IN r.found /\ Kind(fs, r.node) = "file"

\* os.path.exists(path)
exists(path) == Resolve(fs, path).found

open_wb(path, mode) ==
    CHOOSE res \in
        { IF r.found /\ Kind(fs, r.node) = "file"
          THEN [ok |-> FALSE, err |-> "UnsupportedOperation", data |-> "",
                fs |-> [fs EXCEPT ![r.node] = File("")]]
          ELSE [ok |-> FALSE, err |-> "OSError", data |-> "", fs |-> fs]
          : r \in {Resolve(fs, path)} } : TRUE

\* open(path, mode) followed by file.read(): the bytes read, or the
\* exception raised, and the filesystem the call leaves behind.  (The path
\* is resolved once; r ranges over the single result.)
open(path, mode) ==
    IF mode # "rb" THEN open_wb(path, mode)
    ELSE CHOOSE res \in
        { IF ~r.found
          THEN [ok |-> FALSE, err |-> "FileNotFoundError", data |-> "", fs |-> fs]
          ELSE IF Kind(fs, r.node) = "dir"
          THEN [ok |-> FALSE, err |-> "IsADirectoryError", data |-> "", fs |-> fs]
          ELSE [ok |-> TRUE, err |-> "", data |-> fs[r.node].data, fs |-> fs]
          : r \in {Resolve(fs, path)} } : TRUE

send_response(h, code) == [h EXCEPT !.status = Append(@, code)]
send_header(h, k, v) == [h EXCEPT !.headers = Append(@, <<k, v>>)]
end_headers(h) == [h EXCEPT !.ended = TRUE]
wfile_write(h, data) == [h EXCEPT !.body = Append(@, data)]

new_handler_shared(req) ==
    [id |-> req.id, path |-> req.path, pc |-> "do_GET",
     status |-> <<>>,
     headers |-> IF responses = <<>> THEN <<>>
                 ELSE responses[Len(responses)].headers,
     ended |-> FALSE, body |-> <<>>, raised |-> ""]

\* A RequestHandler instance is constructed for every accepted request.
new_handler(req) ==
    [id |-> req.id, path |-> req.path, pc |-> "do_GET",
     status |-> <<>>, headers |-> <<>>, ended |-> FALSE,
     body |-> <<>>, raised |-> ""]

----------------------------------------------------------------------------

Init ==
    /\ fs \in FsOptions
    /\ server_address = [host |-> "0.0.0.0", port |-> 8000]
    /\ serving = TRUE
    /\ backlog = <<>>
    /\ nextId = 1
    /\ accepted = <<>>
    /\ handlers = <<>>
    /\ responses = <<>>

\* A client connects and sends "GET t"; the connection waits in the
\* listening socket's queue.
ClientConnect(t) ==
    /\ nextId <= MaxRequests
    /\ backlog' = Append(backlog, [id |-> nextId, path |-> t])
    /\ nextId' = nextId + 1
    /\ UNCHANGED <<fs, server_address, serving, accepted, handlers, responses>>

get_request_threading ==
    /\ serving
    /\ backlog # <<>>
    /\ LET req == Head(backlog) IN
         /\ handlers' = (req.id :> new_handler(req)) @@ handlers
         /\ accepted' = Append(accepted, req.id)
    /\ backlog' = Tail(backlog)
    /\ UNCHANGED <<fs, server_address, serving, nextId, responses>>

\* serve_forever: the loop accepts the next connection only when it is not
\* inside process_request for an earlier one.
get_request ==
    /\ serving
    /\ DOMAIN handlers = {}
    /\ backlog # <<>>
    /\ LET req == Head(backlog) IN
         /\ handlers' = (req.id :> new_handler(req)) @@ handlers
         /\ accepted' = Append(accepted, req.id)
    /\ backlog' = Tail(backlog)
    /\ UNCHANGED <<fs, server_address, serving, nextId, responses>>

do_GET(id) ==
    /\ id \in DOMAIN handlers
    /\ handlers[id].pc = "do_GET"
    /\ \E self \in {handlers[id]} :
       \E parsed_path \in {urlparse(self.path)} :
          IF startswith(self.path, STATIC_PREFIX)
          THEN \E path \in {static_path(self.path)} :
               IF exists(path)
               THEN \E file \in {open(path, "rb")} :
                    \E h \in {end_headers(send_header(send_response(self, 200),
                                  "Content-type", "text/javascript"))} :
                       /\ fs' = file.fs
                       /\ handlers' = [handlers EXCEPT ![id] =
                            IF file.ok
                            THEN [wfile_write(h, file.data) EXCEPT !.pc = "done"]
                            ELSE [h EXCEPT !.pc = "error", !.raised = file.err]]
               ELSE \E h \in {end_headers(send_header(send_response(self, 404),
                                  "Content-type", "text/plain"))} :
                       /\ fs' = fs
                       /\ handlers' = [handlers EXCEPT ![id] =
                            [wfile_write(h, "Not Found") EXCEPT !.pc = "done"]]
          ELSE \E path \in {<<".", "/", "index.html">>} :
               \E file \in {open(path, "rb")} :
               \E h \in {end_headers(send_header(send_header(
                             send_response(self, 200),
                             "Content-type", "text/html"),
                             "Access-Control-Allow-Origin", "null"))} :
                  /\ fs' = file.fs
                  /\ handlers' = [handlers EXCEPT ![id] =
                       IF file.ok
                       THEN [wfile_write(h, file.data) EXCEPT !.pc = "done"]
                       ELSE [h EXCEPT !.pc = "error", !.raised = file.err]]
    /\ UNCHANGED <<server_address, serving, backlog, nextId, accepted, responses>>

handle_error_reraise(id) ==
    /\ id \in DOMAIN handlers
    /\ handlers[id].pc = "error"
    /\ handlers' = [handlers EXCEPT ![id].pc = "done"]
    /\ serving' = FALSE
    /\ UNCHANGED <<fs, server_address, backlog, nextId, accepted, responses>>

\* An exception that leaves do_GET is caught by the serve loop, which
\* reports it and goes on to close the request.
handle_error(id) ==
    /\ id \in DOMAIN handlers
    /\ handlers[id].pc = "error"
    /\ handlers' = [handlers EXCEPT ![id].pc = "done"]
    /\ UNCHANGED <<fs, server_address, serving, backlog, nextId, accepted, responses>>

\* The connection is closed; the loop returns to accepting.
shutdown_request(id) ==
    /\ id \in DOMAIN handlers
    /\ handlers[id].pc = "done"
    /\ responses' = Append(responses, handlers[id])
    /\ handlers' = [i \in DOMAIN handlers \ {id} |-> handlers[i]]
    /\ UNCHANGED <<fs, server_address, serving, backlog, nextId, accepted>>

Next ==
    \/ \E t \in Targets : ClientConnect(t)
    \/ get_request
    \/ \E id \in Ids : do_GET(id)
    \/ \E id \in Ids : handle_error(id)
    \/ \E id \in Ids : shutdown_request(id)

Spec == Init /\ [][Next]_vars

----------------------------------------------------------------------------
(* Vocabulary of the properties, stated on the filesystem and on the       *)
(* completed exchanges, independently of the handler's own helpers.        *)

UnderStatic(p) == Len(p) >= 3 /\ p[1] = "/" /\ p[2] = "static" /\ p[3] = "/"

\* The entry at '.' + p, resolved from the working directory.
EntryAt(p) == Resolve(fs, <<".">> \o p)

IsFileAt(p) == EntryAt(p).found /\ Kind(fs, EntryAt(p).node) = "file"

InStaticTree(n) == Len(n) > Len(StaticNode) /\ SubSeq(n, 1, Len(StaticNode)) = StaticNode

Done == {responses[k] : k \in 1..Len(responses)}

Reply(r) == <<r.status, r.headers, r.body>>

JsHeaders == << <<"Content-type", "text/javascript">> >>
PlainHeaders == << <<"Content-type", "text/plain">> >>
HtmlHeaders == << <<"Content-type", "text/html">>, <<"Access-Control-Allow-Origin", "null">> >>

Has404(r) == \E i \in 1..Len(r.status) : r.status[i] = 404

ExpectedStatus(p) == IF UnderStatic(p) /\ ~EntryAt(p).found THEN 404 ELSE 200

\* C1: a GET to /static/<relative-path> of an existing file in the static/
\* tree is answered 200, Content-type text/javascript, and a body that is
\* exactly the file's contents.
C1_StaticFileServed ==
    \A r \in Done :
        (UnderStatic(r.path) /\ IsFileAt(r.path) /\ InStaticTree(EntryAt(r.path).node))
        => /\ r.status = <<200>>
           /\ r.headers = JsHeaders
           /\ r.ended
           /\ r.body = <<fs[EntryAt(r.path).node].data>>

C1_Witness ==
    \E r \in Done :
        /\ r.path = <<"/", "static", "/", "app.js">>
        /\ IsFileAt(r.path)
        /\ r.body = <<"console.log(1);">>

\* C2: a GET under /static/ with no filesystem entry at '.' + path is
\* answered 404, Content-type text/plain, body 'Not Found', and a 404 is
\* sent in no other case.
C2_NotFoundExactly ==
    \A r \in Done :
        /\ Has404(r) <=> (UnderStatic(r.path) /\ ~EntryAt(r.path).found)
        /\ Has404(r) => /\ r.status = <<404>>
                        /\ r.headers = PlainHeaders
                        /\ r.ended
                        /\ r.body = <<"Not Found">>

C2_Witness ==
    /\ \E r \in Done : r.path = <<"/", "static", "/", "missing.js">> /\ Has404(r)
    /\ \E r \in Done : r.path = <<"/", "static", "/">> /\ ~Has404(r)

\* C3: a GET whose path does not start with /static/ is answered 200,
\* Content-type text/html, Access-Control-Allow-Origin null, and the bytes
\* of index.html, whatever the path is.
C3_IndexForOtherPaths ==
    \A r \in Done :
        ~UnderStatic(r.path)
        => /\ r.status = <<200>>
           /\ r.headers = HtmlHeaders
           /\ r.ended
           /\ Kind(fs, IndexNode) = "file" => r.body = <<fs[IndexNode].data>>

C3_Witness ==
    /\ \E r \in Done : r.path = <<"/", "static", "foo">> /\ r.body = <<"<html></html>">>
    /\ \E r \in Done : r.path = <<"/", "static">> /\ r.body = <<"<html></html>">>

\* C4: every request gets exactly one status code and exactly one body; no
\* 200 status line is sent for a request whose body is then not written.
C4_OneStatusOneBody ==
    \A r \in Done : Len(r.status) = 1 /\ Len(r.body) = 1

\* C5: requests are handled one at a time in accept order: never two in
\* flight, connections accepted in arrival order, exchanges completed in
\* accept order.
C5_OneAtATimeInOrder ==
    /\ Cardinality(DOMAIN handlers) <= 1
    /\ Len(accepted) = Len(responses) + Cardinality(DOMAIN handlers)
    /\ \A k \in 1..Len(accepted) : accepted[k] = k
    /\ \A k \in 1..Len(responses) : responses[k].id = accepted[k]
    /\ \A id \in DOMAIN handlers : id = accepted[Len(accepted)]

C5_Witness ==
    /\ backlog # <<>>
    /\ \E id \in DOMAIN handlers : handlers[id].pc = "done"

C7_HandlingLeavesStateAlone ==
    [][fs' = fs /\ server_address' = server_address /\ serving' = serving]_vars

C7_Witness ==
    /\ server_address = [host |-> "0.0.0.0", port |-> 8000]
    /\ \E r \in Done : r.raised # ""
    /\ \E r \in Done : r.status = <<200>> /\ Len(r.body) = 1

\* C8: routing and lookup use the parsed URL path, so a target with a query
\* string or fragment gets the same response as its bare path.
C8_QueryIgnored ==
    \A j, k \in 1..Len(responses) :
        urlparse(responses[j].path).path = urlparse(responses[k].path).path
        => Reply(responses[j]) = Reply(responses[k])

\* C9: under /static/ the path read is '.' + path as received, so a path
\* with '..' segments that resolves to a file outside static/ is answered
\* 200, Content-type text/javascript, with that file's bytes.
C9_TraversalServed ==
    \A r \in Done :
        (UnderStatic(r.path) /\ IsFileAt(r.path) /\ ~InStaticTree(EntryAt(r.path).node))
        => /\ r.status = <<200>>
           /\ r.headers = JsHeaders
           /\ r.body = <<fs[EntryAt(r.path).node].data>>

C9_Witness ==
    /\ \E r \in Done : /\ r.path = <<"/", "static", "/", "..", "/", "index.html">>
                       /\ r.body = <<"<html></html>">>
    /\ \E r \in Done : /\ r.path = <<"/", "static", "/", "..", "/", "..", "/", "Cargo.toml">>
                       /\ r.body = <<"[package]">>

Failed(r) == r.raised # "" \/ Has404(r)

\* C10: a failed request (a 404, or a read that raised) never stops the serve
\* loop: the loop is still serving, it accepts again as soon as a connection
\* is waiting and no request is in flight, and every request completed after
\* a failed one is routed as the rules say.
C10_LoopSurvivesFailure ==
    /\ serving
    /\ (backlog # <<>> /\ DOMAIN handlers = {}) => ENABLED get_request
    /\ \A j, k \in 1..Len(responses) :
          (j < k /\ Failed(responses[j]))
          => responses[k].status = <<ExpectedStatus(responses[k].path)>>

C10_Witness ==
    \E j, k \in 1..Len(responses) :
        /\ j < k
        /\ responses[j].raised # ""
        /\ responses[k].status = <<ExpectedStatus(responses[k].path)>>
        /\ serving

====
